---- MODULE Spec2Model ----
(***************************************************************************)
(* Model of Physika's VolumetricMesh<Scalar,Dim> (volumetric_mesh.h) and   *)
(* of the additive part of Vector2D<Scalar> (vector_2d.cpp).               *)
(*                                                                         *)
(* A buffer is a record [ptr, data]: ptr is "NULL", "owned" (new[]) or     *)
(* "freed" (delete[]); data holds the elements, element j of the C++ array *)
(* being data[j+1].  A read outside an owned buffer is undefined: what it  *)
(* finds is the variable wild, unknown until the first such read and       *)
(* stable afterwards (no operation of the mesh writes memory).             *)
(***************************************************************************)
EXTENDS Integers, Sequences, FiniteSets, TLC

\* template parameter Dim of the mesh; Vector<Scalar,2> is Vector2D
Dim == 2

\* bounds of the explored inputs
MaxVert == 2
MaxEle == 2
MaxPerEle == 4
MaxComp == 1

VARIABLES
    mesh,       \* the VolumetricMesh object: its six data members
    in,         \* the arguments of init, as they were when init ran
    vertices,   \* the caller's vertex array, live (the caller may write it)
    wild,       \* what a read outside every owned buffer finds
    ret,        \* the last call on the mesh and its outcome
    phase,      \* "Uninitialized", "Initialized", "exited", "crashed", "destroyed"
    twin,       \* a second mesh, built by the ragged constructor (SpecEq)
    ret2,       \* the outcome of the last call on twin (SpecEq)
    va, vb, vc, \* three Vector2D operands (SpecVec)
    law,        \* which expression pair was evaluated last (SpecVec)
    lhs, rhs    \* the two Vector2D results of that pair (SpecVec)

meshVars == <<mesh, in, vertices, wild, ret, phase>>
twinVars == <<twin, ret2>>
vecVars == <<va, vb, vc, law, lhs, rhs>>
vars == <<mesh, in, vertices, wild, ret, phase, twin, ret2, va, vb, vc, law, lhs, rhs>>

----------------------------------------------------------------------------
(* Memory *)

NULL == [ptr |-> "NULL", data |-> <<>>]

new(contents) == [ptr |-> "owned", data |-> contents]

delete(buf) == IF buf.ptr = "NULL" THEN buf ELSE [buf EXCEPT !.ptr = "freed"]

memcpy(src, n) == [j \in 1..n |-> src[j]]

InBounds(buf, j) == buf.ptr = "owned" /\ j >= 0 /\ j < Len(buf.data)

\* buf[j]; w is what the read finds when j is outside the buffer
Load(buf, j, w) == IF InBounds(buf, j) THEN buf.data[j + 1] ELSE w.word

Stray(m, reads) == \E r \in reads : ~InBounds(m[r[1]], r[2])

\* what a read outside every owned buffer can find: a fault, or some word,
\* here one that no count or index of the explored inputs equals
StrayWord == (MaxVert + 1) * (MaxPerEle + 1) + 1
StrayOutcomes ==
    {[segv |-> TRUE, word |-> 0], [segv |-> FALSE, word |-> StrayWord]}

Unobserved == [seen |-> FALSE, segv |-> FALSE, word |-> 0]

Observed(w) == [seen |-> TRUE, segv |-> w.segv, word |-> w.word]

\* the outcome of a call that ran to its return statement having done `reads`
Return(m, reads, value, w) ==
    IF Stray(m, reads) /\ w.segv
    THEN [outcome |-> "crash", msg |-> "", value |-> <<>>, reads |-> reads]
    ELSE [outcome |-> "returned", msg |-> "", value |-> value, reads |-> reads]

\* std::cerr << msg; std::exit(EXIT_FAILURE), having done `reads`
Exit(m, reads, msg, w) ==
    IF Stray(m, reads) /\ w.segv
    THEN [outcome |-> "crash", msg |-> "", value |-> <<>>, reads |-> reads]
    ELSE [outcome |-> "fatal", msg |-> msg, value |-> <<>>, reads |-> reads]

----------------------------------------------------------------------------
(* VolumetricMesh *)

RECURSIVE Sum(_, _, _)
\* for(i = 0; i < n; ++i) total += buf[i]
Sum(buf, n, w) == IF n <= 0 THEN 0 ELSE Sum(buf, n - 1, w) + Load(buf, n - 1, w)

VolumetricMesh_default ==
    [vert_num_ |-> 0, vertices_ |-> NULL, ele_num_ |-> 0, elements_ |-> NULL,
     vert_per_ele_ |-> NULL, uniform_ele_type_ |-> FALSE]

\* init as a bug would have it: no connectivity buffer for a mesh with no
\* connectivity entry
init_lazy(vert_num, verts, ele_num, elements, vert_per_ele, uniform_ele_type) ==
    LET vpe == IF uniform_ele_type
               THEN new(<<vert_per_ele[1]>>)
               ELSE new(memcpy(vert_per_ele, ele_num))
        elements_total_num ==
            IF uniform_ele_type
            THEN ele_num * vpe.data[1]
            ELSE Sum(vpe, ele_num, [segv |-> FALSE, word |-> 0])
    IN [outcome |-> "returned", msg |-> "",
        mesh |-> [vert_num_ |-> vert_num,
                  vertices_ |-> new(memcpy(verts, vert_num * Dim)),
                  ele_num_ |-> ele_num,
                  elements_ |-> IF elements_total_num = 0 THEN NULL
                                ELSE new(memcpy(elements, elements_total_num)),
                  vert_per_ele_ |-> vpe,
                  uniform_ele_type_ |-> uniform_ele_type]]

\* init as a bug would have it: the connectivity is validated, and a vertex
\* index outside [0, vert_num) is fatal at construction
init_validating(vert_num, verts, ele_num, elements, vert_per_ele, uniform_ele_type) ==
    LET vpe == IF uniform_ele_type
               THEN new(<<vert_per_ele[1]>>)
               ELSE new(memcpy(vert_per_ele, ele_num))
        elements_total_num ==
            IF uniform_ele_type
            THEN ele_num * vpe.data[1]
            ELSE Sum(vpe, ele_num, [segv |-> FALSE, word |-> 0])
        dangling == \E j \in 1..elements_total_num :
                        elements[j] < 0 \/ elements[j] >= vert_num
    IN [outcome |-> IF dangling THEN "fatal" ELSE "returned",
        msg |-> IF dangling THEN "vertex index out of range!\n" ELSE "",
        mesh |-> [vert_num_ |-> vert_num,
                  vertices_ |-> new(memcpy(verts, vert_num * Dim)),
                  ele_num_ |-> ele_num,
                  elements_ |-> new(memcpy(elements, elements_total_num)),
                  vert_per_ele_ |-> vpe,
                  uniform_ele_type_ |-> uniform_ele_type]]

init(vert_num, verts, ele_num, elements, vert_per_ele, uniform_ele_type) ==
    LET vpe == IF uniform_ele_type
               THEN new(<<vert_per_ele[1]>>)
               ELSE new(memcpy(vert_per_ele, ele_num))
        elements_total_num ==
            IF uniform_ele_type
            THEN ele_num * vpe.data[1]
            ELSE Sum(vpe, ele_num, [segv |-> FALSE, word |-> 0])
    IN [outcome |-> "returned", msg |-> "",
        mesh |-> [vert_num_ |-> vert_num,
                  vertices_ |-> new(memcpy(verts, vert_num * Dim)),
                  ele_num_ |-> ele_num,
                  elements_ |-> new(memcpy(elements, elements_total_num)),
                  vert_per_ele_ |-> vpe,
                  uniform_ele_type_ |-> uniform_ele_type]]

VolumetricMesh_uniform(vert_num, verts, ele_num, elements, vert_per_ele) ==
    init(vert_num, verts, ele_num, elements, <<vert_per_ele>>, TRUE)

VolumetricMesh_ragged(vert_num, verts, ele_num, elements, vert_per_ele_list) ==
    init(vert_num, verts, ele_num, elements, vert_per_ele_list, FALSE)

Destructor(m) ==
    [m EXCEPT !.vertices_ = delete(m.vertices_),
              !.elements_ = delete(m.elements_),
              !.vert_per_ele_ = delete(m.vert_per_ele_)]

vertNum(m) == m.vert_num_

eleNum(m) == m.ele_num_

isUniformElementType(m) == m.uniform_ele_type_

eleVertNum(m, ele_idx, w) ==
    LET at == IF m.uniform_ele_type_ THEN 0 ELSE ele_idx
    IN Return(m, {<<"vert_per_ele_", at>>}, <<Load(m.vert_per_ele_, at, w)>>, w)

\* (vert_idx<0) || (vert_idx>=this->vert_num_)
VertexOutOfRange_upTo(m, vert_idx) == (vert_idx < 0) \/ (vert_idx > m.vert_num_)
VertexOutOfRange(m, vert_idx) == (vert_idx < 0) \/ (vert_idx >= m.vert_num_)

\* the index Dim*vert_idx+i of component i of vertex vert_idx
VertexOffset_unscaled(vert_idx, i) == vert_idx + i
VertexOffset(vert_idx, i) == Dim * vert_idx + i

vertPos(m, vert_idx, w) ==
    IF VertexOutOfRange(m, vert_idx)
    THEN Exit(m, {}, "vertex index out of range!\n", w)
    ELSE Return(m, {<<"vertices_", VertexOffset(vert_idx, i)>> : i \in 0..(Dim - 1)},
                [i \in 1..Dim |-> Load(m.vertices_, VertexOffset(vert_idx, i - 1), w)], w)

\* (ele_idx<0) || (ele_idx>=this->ele_num_)
ElementOutOfRange_upTo(m, ele_idx) == (ele_idx < 0) \/ (ele_idx > m.ele_num_)
ElementOutOfRange(m, ele_idx) == (ele_idx < 0) \/ (ele_idx >= m.ele_num_)

\* ele_idx_start: where element ele_idx starts in elements_
EleIdxStart_strided(m, ele_idx, w) ==
    ele_idx * Load(m.vert_per_ele_, IF m.uniform_ele_type_ THEN 0 ELSE ele_idx, w)
EleIdxStart_inclusive(m, ele_idx, w) ==
    IF m.uniform_ele_type_
    THEN ele_idx * Load(m.vert_per_ele_, 0, w)
    ELSE Sum(m.vert_per_ele_, ele_idx + 1, w)
EleIdxStart(m, ele_idx, w) ==
    IF m.uniform_ele_type_
    THEN ele_idx * Load(m.vert_per_ele_, 0, w)
    ELSE Sum(m.vert_per_ele_, ele_idx, w)

eleVertPos(m, ele_idx, vert_idx, w) ==
    IF ElementOutOfRange(m, ele_idx)
    THEN Exit(m, {}, "element index out of range!\n", w)
    ELSE
      LET at == IF m.uniform_ele_type_ THEN 0 ELSE ele_idx
          checked == {<<"vert_per_ele_", at>>}
      IN IF (vert_idx < 0) \/ (vert_idx >= Load(m.vert_per_ele_, at, w))
         THEN Exit(m, checked, "vert_idx out of range\n", w)
         ELSE
           LET ele_idx_start == EleIdxStart(m, ele_idx, w)
               summed == IF m.uniform_ele_type_ THEN {}
                         ELSE {<<"vert_per_ele_", i>> : i \in 0..(ele_idx - 1)}
               looked == {<<"elements_", ele_idx_start + vert_idx>>}
               global_vert_idx == Load(m.elements_, ele_idx_start + vert_idx, w)
               pos == vertPos(m, global_vert_idx, w)
               reads == checked \cup summed \cup looked \cup pos.reads
           IN IF pos.outcome = "returned"
              THEN Return(m, reads, pos.value, w)
              ELSE Exit(m, reads, pos.msg, w)

----------------------------------------------------------------------------
(* The explored inputs *)

\* the vertex array of n vertices: the scalars 1, 2, ..., so that no two
\* entries are equal and none is the 0 the caller later writes
VertexArrays(n) == {[j \in 1..(Dim * n) |-> j]}

\* connectivity arrays of the given length over n vertices: the cycle
\* -1, 0, ..., n from any start, so that valid and dangling indices occur
ConnectivityArrays(n, total) ==
    {[j \in 1..total |-> ((a + j - 1) % (n + 2)) - 1] : a \in 0..(n + 1)}

\* the per-element counts handed to a constructor: one shared count, or a list
\* (the lists: counts in arithmetic progression around 1..MaxPerEle, which
\* is every list of up to two counts)
CountLists(ele_num, uniform_ele_type) ==
    IF uniform_ele_type
    THEN {<<c>> : c \in 1..MaxPerEle}
    ELSE {[j \in 1..ele_num |-> ((c - 1 + (j - 1) * d) % MaxPerEle) + 1] :
             c \in 1..MaxPerEle, d \in 0..(MaxPerEle - 1)}

RECURSIVE SeqSum(_)
SeqSum(s) == IF s = <<>> THEN 0 ELSE s[1] + SeqSum(Tail(s))

\* the length of the connectivity array that goes with the counts
TotalOf(ele_num, counts, uniform_ele_type) ==
    IF uniform_ele_type THEN ele_num * counts[1] ELSE SeqSum(counts)

\* the argument lists of init: sizes consistent, counts positive
InitArgs(n, v, k, e, c, u) ==
    [vert_num |-> n, vertices |-> v, ele_num |-> k, elements |-> e,
     vert_per_ele |-> c, uniform_ele_type |-> u]

NoArgs == InitArgs(0, <<>>, 0, <<>>, <<>>, FALSE)

\* the constructor overload that args selects
Construct(args) ==
    IF args.uniform_ele_type
    THEN VolumetricMesh_uniform(args.vert_num, args.vertices, args.ele_num,
                                args.elements, args.vert_per_ele[1])
    ELSE VolumetricMesh_ragged(args.vert_num, args.vertices, args.ele_num,
                               args.elements, args.vert_per_ele)

VertArgs == (-1)..MaxVert
EleArgs == (-1)..MaxEle
LocalArgs == (-1)..MaxPerEle

----------------------------------------------------------------------------
(* Vector2D *)

\* Vector2D(Scalar x, Scalar y), built with PHYSIKA_USE_EIGEN_VECTOR
Vector2D(x, y) == <<x, y>>

\* operator[] (int idx) const
Component(vec, idx) == vec[idx + 1]

\* operator+ as a bug would have it: the second sum takes component 0 of vec2
operator_plus_mixed(this, vec2) ==
    LET result == [i \in 0..1 |-> Component(this, i) + Component(vec2, 0)]
    IN Vector2D(result[0], result[1])

operator_plus(this, vec2) ==
    LET result == [i \in 0..1 |-> Component(this, i) + Component(vec2, i)]
    IN Vector2D(result[0], result[1])

operator_eq(this, vec2) ==
    ~(\E i \in 0..1 : Component(this, i) # Component(vec2, i))

operator_neg(this) == Vector2D(-Component(this, 0), -Component(this, 1))

Components == (-MaxComp)..MaxComp
Vectors == {Vector2D(x, y) : x \in Components, y \in Components}

----------------------------------------------------------------------------
(* The calls *)

NoCall == [op |-> "none", args |-> <<>>, outcome |-> "returned", msg |-> "",
           value |-> <<>>, reads |-> {}]

Called(op, args, r) ==
    [op |-> op, args |-> args, outcome |-> r.outcome, msg |-> r.msg,
     value |-> r.value, reads |-> r.reads]

Alive == phase \in {"Uninitialized", "Initialized"}

After(r) ==
    IF r.outcome = "returned" THEN phase
    ELSE IF r.outcome = "fatal" THEN "exited" ELSE "crashed"

\* what a stray read finds now: as before if one was made, anything if none
Wild == IF wild.seen THEN {[segv |-> wild.segv, word |-> wild.word]}
        ELSE StrayOutcomes

\* Finish as a bug would have it: eleVertPos turns the counts it has summed
\* into offsets in place, through the pointer a const member may write
Finish_inPlace(op, args, r, w) ==
    /\ ret' = Called(op, args, r)
    /\ phase' = After(r)
    /\ wild' = IF Stray(mesh, r.reads) THEN Observed(w) ELSE wild
    /\ mesh' = IF op = "eleVertPos" /\ r.outcome = "returned"
               THEN [mesh EXCEPT !.vert_per_ele_.data =
                        [j \in DOMAIN @ |-> Sum(mesh.vert_per_ele_, j, w)]]
               ELSE mesh
    /\ UNCHANGED <<in, vertices, twinVars, vecVars>>

\* a const member function of mesh was called and came out as r
Finish(op, args, r, w) ==
    /\ ret' = Called(op, args, r)
    /\ phase' = After(r)
    /\ wild' = IF Stray(mesh, r.reads) THEN Observed(w) ELSE wild
    /\ mesh' = mesh
    /\ UNCHANGED <<in, vertices, twinVars, vecVars>>

BoolWord(b) == IF b THEN 1 ELSE 0

Queries ==
    {<<"vertNum">>, <<"eleNum">>, <<"isUniformElementType">>} \cup
    {<<"eleVertNum", e>> : e \in EleArgs} \cup
    {<<"vertPos", i>> : i \in VertArgs} \cup
    {<<"eleVertPos", e, l>> : e \in EleArgs, l \in LocalArgs}

\* the public const member function q[1] of m, called with the rest of q
Query(m, q, w) ==
    CASE q[1] = "vertNum" -> Return(m, {}, <<vertNum(m)>>, w)
      [] q[1] = "eleNum" -> Return(m, {}, <<eleNum(m)>>, w)
      [] q[1] = "isUniformElementType" ->
             Return(m, {}, <<BoolWord(isUniformElementType(m))>>, w)
      [] q[1] = "eleVertNum" -> eleVertNum(m, q[2], w)
      [] q[1] = "vertPos" -> vertPos(m, q[2], w)
      [] q[1] = "eleVertPos" -> eleVertPos(m, q[2], q[3], w)

\* what the stray reads of a call find: nothing to choose when it makes none
Found(r) == IF Stray(mesh, r.reads) THEN Wild ELSE {[segv |-> FALSE, word |-> 0]}

Call(q) ==
    \E w \in Found(Query(mesh, q, [segv |-> FALSE, word |-> 0])) :
        Finish(q[1], Tail(q), Query(mesh, q, w), w)

CallVertNum ==
    /\ Alive
    /\ Call(<<"vertNum">>)

CallEleNum ==
    /\ Alive
    /\ Call(<<"eleNum">>)

CallIsUniformElementType ==
    /\ Alive
    /\ Call(<<"isUniformElementType">>)

CallEleVertNum ==
    /\ Alive
    /\ \E ele_idx \in EleArgs : Call(<<"eleVertNum", ele_idx>>)

CallVertPos ==
    /\ Alive
    /\ \E vert_idx \in VertArgs : Call(<<"vertPos", vert_idx>>)

CallEleVertPos ==
    /\ Alive
    /\ \E ele_idx \in EleArgs, vert_idx \in LocalArgs :
         Call(<<"eleVertPos", ele_idx, vert_idx>>)

\* the mesh came out of a constructor or of init as r, built from args
Built(op, args, r) ==
    /\ mesh' = r.mesh
    /\ in' = args
    /\ vertices' = args.vertices
    /\ ret' = [op |-> op, args |-> <<>>, outcome |-> r.outcome, msg |-> r.msg,
               value |-> <<>>, reads |-> {}]
    /\ phase' = IF r.outcome = "returned" THEN "Initialized" ELSE "exited"

\* a derived class calls the protected init on a default-constructed mesh
CallInit ==
    /\ phase = "Uninitialized"
    /\ \E n \in 0..MaxVert, k \in 0..MaxEle, u \in BOOLEAN :
         \E v \in VertexArrays(n), c \in CountLists(k, u) :
           \E e \in ConnectivityArrays(n, TotalOf(k, c, u)) :
             LET args == InitArgs(n, v, k, e, c, u)
             IN Built("init", args,
                      init(args.vert_num, args.vertices, args.ele_num,
                           args.elements, args.vert_per_ele, args.uniform_ele_type))
    /\ UNCHANGED <<wild, twinVars, vecVars>>

\* the caller clears the vertex array it handed to the mesh
CallerOverwrite ==
    /\ Alive
    /\ vertices' = [j \in DOMAIN vertices |-> 0]
    /\ vertices' # vertices
    /\ UNCHANGED <<mesh, in, wild, ret, phase, twinVars, vecVars>>

Destroy ==
    /\ Alive
    /\ mesh' = Destructor(mesh)
    /\ phase' = "destroyed"
    /\ ret' = [NoCall EXCEPT !.op = "~VolumetricMesh"]
    /\ UNCHANGED <<in, vertices, wild, twinVars, vecVars>>

NoVector == Vector2D(0, 0)

Init ==
    /\ wild = Unobserved
    /\ \/ /\ mesh = VolumetricMesh_default
          /\ in = NoArgs
          /\ vertices = <<>>
          /\ ret = [NoCall EXCEPT !.op = "VolumetricMesh"]
          /\ phase = "Uninitialized"
       \/ \E n \in 0..MaxVert, k \in 0..MaxEle, u \in BOOLEAN :
            \E v \in VertexArrays(n), c \in CountLists(k, u) :
              \E e \in ConnectivityArrays(n, TotalOf(k, c, u)) :
                LET args == InitArgs(n, v, k, e, c, u)
                    r == Construct(args)
                IN /\ mesh = r.mesh
                   /\ in = args
                   /\ vertices = args.vertices
                   /\ ret = [NoCall EXCEPT !.op = "VolumetricMesh", !.outcome = r.outcome,
                                           !.msg = r.msg]
                   /\ phase = IF r.outcome = "returned" THEN "Initialized" ELSE "exited"
    /\ twin = VolumetricMesh_default
    /\ ret2 = NoCall
    /\ va = NoVector /\ vb = NoVector /\ vc = NoVector
    /\ law = "none" /\ lhs = NoVector /\ rhs = NoVector

Next ==
    \/ CallInit
    \/ CallVertNum
    \/ CallEleNum
    \/ CallIsUniformElementType
    \/ CallEleVertNum
    \/ CallVertPos
    \/ CallEleVertPos
    \/ CallerOverwrite
    \/ Destroy

Spec == Init /\ [][Next]_vars

----------------------------------------------------------------------------
(* Two meshes from the same arrays, one per array constructor *)

InitEq ==
    /\ wild = Unobserved
    /\ \E n \in 0..MaxVert, k \in 0..MaxEle, c \in 1..MaxPerEle :
         \E v \in VertexArrays(n), e \in ConnectivityArrays(n, k * c) :
           LET args == InitArgs(n, v, k, e, <<c>>, TRUE)
           IN /\ mesh = VolumetricMesh_uniform(n, v, k, e, c).mesh
              /\ twin = VolumetricMesh_ragged(n, v, k, e, [j \in 1..k |-> c]).mesh
              /\ in = args
              /\ vertices = v
    /\ ret = [NoCall EXCEPT !.op = "VolumetricMesh"]
    /\ ret2 = [NoCall EXCEPT !.op = "VolumetricMesh"]
    /\ phase = "Initialized"
    /\ va = NoVector /\ vb = NoVector /\ vc = NoVector
    /\ law = "none" /\ lhs = NoVector /\ rhs = NoVector

\* the same call on both meshes
PairCall ==
    /\ Alive
    /\ \E q \in Queries :
         LET quiet == [segv |-> FALSE, word |-> 0]
             strays == Stray(mesh, Query(mesh, q, quiet).reads)
                       \/ Stray(twin, Query(twin, q, quiet).reads)
         IN \E w \in (IF strays THEN Wild ELSE {quiet}) :
              LET r == Query(mesh, q, w)
                  r2 == Query(twin, q, w)
              IN /\ ret' = Called(q[1], Tail(q), r)
                 /\ ret2' = Called(q[1], Tail(q), r2)
                 /\ phase' = IF r.outcome # "returned" THEN After(r) ELSE After(r2)
                 /\ wild' = IF strays THEN Observed(w) ELSE wild
    /\ UNCHANGED <<mesh, twin, in, vertices, vecVars>>

NextEq == PairCall

SpecEq == InitEq /\ [][NextEq]_vars

----------------------------------------------------------------------------
(* Vector2D expressions over three operands *)

InitVec ==
    /\ mesh = VolumetricMesh_default
    /\ twin = VolumetricMesh_default
    /\ in = NoArgs
    /\ vertices = <<>>
    /\ wild = Unobserved
    /\ ret = NoCall
    /\ ret2 = NoCall
    /\ phase = "Uninitialized"
    /\ va \in Vectors /\ vb \in Vectors /\ vc \in Vectors
    /\ law = "none" /\ lhs = NoVector /\ rhs = NoVector

\* a+b and b+a
AddCommuted ==
    /\ law' = "commute"
    /\ lhs' = operator_plus(va, vb)
    /\ rhs' = operator_plus(vb, va)
    /\ UNCHANGED <<va, vb, vc, meshVars, twinVars>>

\* (a+b)+c and a+(b+c)
AddAssociated ==
    /\ law' = "associate"
    /\ lhs' = operator_plus(operator_plus(va, vb), vc)
    /\ rhs' = operator_plus(va, operator_plus(vb, vc))
    /\ UNCHANGED <<va, vb, vc, meshVars, twinVars>>

\* a + (-a) and the zero vector
AddInverse ==
    /\ law' = "inverse"
    /\ lhs' = operator_plus(va, operator_neg(va))
    /\ rhs' = Vector2D(0, 0)
    /\ UNCHANGED <<va, vb, vc, meshVars, twinVars>>

NextVec == AddCommuted \/ AddAssociated \/ AddInverse

SpecVec == InitVec /\ [][NextVec]_vars

----------------------------------------------------------------------------
(* The claims *)

Quiet == [segv |-> FALSE, word |-> 0]

\* the count of element e as the constructor was given it
CountOf(e) ==
    IF in.uniform_ele_type THEN in.vert_per_ele[1] ELSE in.vert_per_ele[e + 1]

\* C[0] + ... + C[e-1] for the ragged list C the constructor was given
RECURSIVE PrefixOf(_)
PrefixOf(e) == IF e <= 0 THEN 0 ELSE PrefixOf(e - 1) + in.vert_per_ele[e]

\* C1: after either array constructor (or init), vertPos(i) for every i in
\* [0, vertNum()) returns the vector whose component d is V[Dim*i+d], V being
\* the caller's array as it was at construction, whatever the caller has
\* written to its array since.
C1_VertPosRoundTrip ==
    /\ phase = "Initialized" => vertNum(mesh) = in.vert_num
    /\ (ret.op = "vertPos" /\ ret.args[1] \in 0..(vertNum(mesh) - 1)) =>
         /\ ret.outcome = "returned"
         /\ Len(ret.value) = Dim
         /\ \A d \in 0..(Dim - 1) :
              ret.value[d + 1] = in.vertices[Dim * ret.args[1] + d + 1]

C1_Witness ==
    /\ ret.op = "vertPos" /\ ret.args = <<1>> /\ ret.outcome = "returned"
    /\ vertices # in.vertices
    /\ ~in.uniform_ele_type

\* C2: on a mesh built from the ragged list C and connectivity E, for e in
\* [0, eleNum()) and l in [0, C[e]), eleVertPos(e, l) reads the connectivity at
\* offset C[0]+...+C[e-1]+l and comes out as vertPos of the index found there.
C2_RaggedOffsetIsPrefixSum ==
    (/\ ret.op = "eleVertPos"
     /\ ~in.uniform_ele_type
     /\ ret.args[1] \in 0..(eleNum(mesh) - 1)
     /\ ret.args[2] \in 0..(CountOf(ret.args[1]) - 1)) =>
        LET offset == PrefixOf(ret.args[1]) + ret.args[2]
            expected == vertPos(mesh, in.elements[offset + 1], Quiet)
        IN /\ {r \in ret.reads : r[1] = "elements_"} = {<<"elements_", offset>>}
           /\ ret.outcome = expected.outcome
           /\ ret.value = expected.value

C2_Witness ==
    /\ ~in.uniform_ele_type /\ in.vert_per_ele = <<3, 4>>
    /\ ret.op = "eleVertPos" /\ ret.args = <<1, 0>> /\ ret.outcome = "returned"
    /\ <<"elements_", 3>> \in ret.reads

SameResult(r, r2) == r.outcome = r2.outcome /\ r.value = r2.value

ComparedOps == {"vertNum", "eleNum", "eleVertNum", "vertPos", "eleVertPos"}

\* C3 as claimed: a uniform mesh with k vertices per element and a ragged mesh
\* with the list of k repeated ele_num times, from the same arrays, give the
\* same result for vertNum, eleNum, eleVertNum, vertPos and eleVertPos at
\* every argument.
C3_Original ==
    ret.op \in ComparedOps => SameResult(ret, ret2)

\* C3 as amended: the same, with eleVertNum(e) compared only for e in
\* [0, eleNum()).
C3_UniformRaggedEquivalent ==
    (/\ ret.op \in ComparedOps
     /\ ret.op = "eleVertNum" => ret.args[1] \in 0..(eleNum(mesh) - 1)) =>
        SameResult(ret, ret2)

C3_Witness ==
    /\ ret.op = "eleVertPos" /\ ret.args = <<1, 1>> /\ ret.outcome = "returned"
    /\ ret2.op = "eleVertPos" /\ ret2.outcome = "returned"
    /\ isUniformElementType(mesh) /\ ~isUniformElementType(twin)
    /\ in.vert_per_ele[1] >= 2

\* C4: vertPos(i) is fatal (message, exit, no vector) exactly when i < 0 or
\* i >= vertNum(); eleVertPos(e, l) is fatal when e is outside [0, eleNum()),
\* and when e is inside and l is outside [0, eleVertNum(e)).
C4_BoundsEnforced ==
    /\ ret.op = "vertPos" =>
         /\ ret.outcome = "fatal" <=>
              (ret.args[1] < 0 \/ ret.args[1] >= vertNum(mesh))
         /\ ret.outcome = "fatal" =>
              (ret.msg # "" /\ ret.value = <<>> /\ phase = "exited")
    /\ ret.op = "eleVertPos" =>
         /\ (ret.args[1] < 0 \/ ret.args[1] >= eleNum(mesh)) =>
              ret.outcome = "fatal"
         /\ (/\ ret.args[1] \in 0..(eleNum(mesh) - 1)
             /\ (ret.args[2] < 0 \/ ret.args[2] >= CountOf(ret.args[1]))) =>
              ret.outcome = "fatal"
         /\ ret.outcome = "fatal" =>
              (ret.msg # "" /\ ret.value = <<>> /\ phase = "exited")

C4_Witness ==
    /\ ~in.uniform_ele_type /\ in.ele_num = 2
    /\ ret.op = "eleVertPos" /\ ret.args = <<0, CountOf(0)>>
    /\ ret.outcome = "fatal" /\ phase = "exited"

\* C5 as claimed: on an initialized ragged mesh eleVertNum(e) is fatal for
\* every e outside [0, eleNum()) and returns C[e] for every e inside; on a
\* uniform mesh it returns the shared count for every e.
C5_EleVertNumChecked ==
    (ret.op = "eleVertNum" /\ mesh.vert_per_ele_.ptr = "owned") =>
        IF isUniformElementType(mesh)
        THEN ret.outcome = "returned" /\ ret.value = <<in.vert_per_ele[1]>>
        ELSE IF ret.args[1] \in 0..(eleNum(mesh) - 1)
             THEN ret.outcome = "returned" /\ ret.value = <<CountOf(ret.args[1])>>
             ELSE ret.outcome = "fatal"

UninitializedForm(m) ==
    /\ vertNum(m) = 0 /\ eleNum(m) = 0
    /\ m.vertices_ = NULL /\ m.elements_ = NULL /\ m.vert_per_ele_ = NULL

InitializedForm(m) ==
    /\ m.vertices_.ptr = "owned"
    /\ m.elements_.ptr = "owned"
    /\ m.vert_per_ele_.ptr = "owned"

LifecycleInv ==
    /\ phase = "Uninitialized" => UninitializedForm(mesh)
    /\ phase = "Initialized" => InitializedForm(mesh)
    /\ phase # "destroyed" => (UninitializedForm(mesh) # InitializedForm(mesh))

LifecycleStep ==
    phase = "Initialized" =>
        /\ phase' # "Uninitialized"
        /\ phase' # "destroyed" => InitializedForm(mesh')

\* C6: a live mesh is either Uninitialized (default-constructed: both counts
\* 0, all three buffers absent) or Initialized (array constructor or init: all
\* three buffers owned), never both or neither; and an Initialized mesh does
\* not become Uninitialized again before it is destroyed.
C6_Lifecycle == []LifecycleInv /\ [][LifecycleStep]_vars

C6_Witness ==
    /\ phase = "Initialized" /\ ret.op = "init"
    /\ InitializedForm(mesh) /\ in.ele_num = 0

Dangling(e, l) ==
    LET offset == (IF in.uniform_ele_type THEN e * in.vert_per_ele[1]
                   ELSE PrefixOf(e)) + l
    IN in.elements[offset + 1] < 0 \/ in.elements[offset + 1] >= in.vert_num

\* C8: no constructor call and no init call is fatal, whatever the
\* connectivity; and eleVertPos(e, l), e and l in range, on an entry that
\* names no vertex is fatal with the vertex message.
C8_DanglingDetectedAtQuery ==
    /\ ret.op \in {"VolumetricMesh", "init"} =>
         (ret.outcome = "returned" /\ phase # "exited")
    /\ (/\ ret.op = "eleVertPos"
        /\ ret.args[1] \in 0..(eleNum(mesh) - 1)
        /\ ret.args[2] \in 0..(CountOf(ret.args[1]) - 1)
        /\ Dangling(ret.args[1], ret.args[2])) =>
         (/\ ret.outcome = "fatal"
          /\ ret.msg = "vertex index out of range!\n"
          /\ phase = "exited")

C8_Witness ==
    /\ ret.op = "eleVertPos" /\ ret.args[1] = 1 /\ ret.args[2] = 0
    /\ ret.args[1] \in 0..(eleNum(mesh) - 1)
    /\ Dangling(1, 0)
    /\ in.elements[1] >= 0
    /\ ret.outcome = "fatal"

VectorLaws ==
    law \in {"commute", "associate", "inverse"} => operator_eq(lhs, rhs)

\* C9: for operands with components in -MaxComp..MaxComp, a+b == b+a,
\* (a+b)+c == a+(b+c) and a + (-a) == (0,0) under operator==, and no
\* evaluation changes an operand.
C9_AdditionLaws ==
    []VectorLaws /\ [][va' = va /\ vb' = vb /\ vc' = vc]_vars

C9_Witness ==
    /\ law = "associate"
    /\ va = Vector2D(1, -1) /\ vb = Vector2D(-1, 1) /\ vc = Vector2D(1, 1)
    /\ lhs = Vector2D(1, 1)

\* C10: every buffer read of vertPos and eleVertPos, at any arguments, is
\* inside the buffer: vertices_ in [0, vert_num*Dim), elements_ in [0, sum of
\* the counts), vert_per_ele_ in [0, 1) on a uniform mesh and [0, ele_num) on
\* a ragged one; and these are the allocated lengths.
C10_ReadsInBounds ==
    /\ phase = "Initialized" =>
         /\ Len(mesh.vertices_.data) = in.vert_num * Dim
         /\ Len(mesh.elements_.data) =
              TotalOf(in.ele_num, in.vert_per_ele, in.uniform_ele_type)
         /\ Len(mesh.vert_per_ele_.data) =
              IF in.uniform_ele_type THEN 1 ELSE in.ele_num
    /\ ret.op \in {"vertPos", "eleVertPos"} =>
         \A r \in ret.reads :
            /\ r[1] = "vertices_" => r[2] \in 0..(in.vert_num * Dim - 1)
            /\ r[1] = "elements_" =>
                 r[2] \in 0..(TotalOf(in.ele_num, in.vert_per_ele,
                                      in.uniform_ele_type) - 1)
            /\ r[1] = "vert_per_ele_" =>
                 r[2] \in 0..((IF in.uniform_ele_type THEN 1 ELSE in.ele_num) - 1)
            /\ InBounds(mesh[r[1]], r[2])

C10_Witness ==
    /\ ~in.uniform_ele_type
    /\ ret.op = "eleVertPos" /\ ret.args[1] = 1 /\ ret.outcome = "returned"
    /\ \E r \in ret.reads : r[1] = "vertices_"
    /\ \E r \in ret.reads : r[1] = "elements_"
    /\ <<"vert_per_ele_", 0>> \in ret.reads /\ <<"vert_per_ele_", 1>> \in ret.reads

====
